---- MODULE Spec2Model ----
(***************************************************************************)
(* Place Detective (src/place_detective.py): the region-decomposition and  *)
(* query-chunking engine (calculate_bbox_area, split_bbox_into_tiles,      *)
(* query_overpass, query_overpass_with_chunking), the record normalizer    *)
(* (extract_place_info), the analysis (analyze_findings), the fuzzy name   *)
(* search (find_similar_names) and the part of main that consumes the      *)
(* fetch.                                                                  *)
(*                                                                         *)
(* Specifications: Spec (a fetch and the report of main), SpecPlan (a      *)
(* fetch against a service that is down, on any box), SpecTile             *)
(* (split_bbox_into_tiles), SpecNorm (extract_place_info), SpecAnalysis    *)
(* (analyze_findings), SpecSimilar (find_similar_names).                   *)
(*                                                                         *)
(* Arithmetic is exact.  A bounding box is a record                        *)
(*   [south, west, north, east, den]                                       *)
(* whose coordinates are the rationals  n / (UnitsPerDegree * den)  in     *)
(* degrees; an area is a rational [num, den] in square degrees.  The       *)
(* comparisons of the code against 1.0 are made by cross-multiplication.   *)
(*                                                                         *)
(* Python values that may be None are wrapped: PyNone, or Py(v).           *)
(* A JSON object is a TLA+ record (a function on its keys); the empty      *)
(* object is the empty function << >>.  An OSM tag map is kept as the      *)
(* sequence of its <<key, value>> pairs, in the order of the document.     *)
(* A string that is lowercased or measured is the sequence of its          *)
(* characters.  The scores of the fuzzywuzzy library are not computed:     *)
(* they are tables, chosen freely at the start of a behaviour.             *)
(***************************************************************************)
EXTENDS Integers, Sequences, FiniteSets, TLC

VARIABLES
    pc,                 \* position of the running call
    bbox,               \* the bounding box of the call
    max_tiles,          \* split_bbox_into_tiles: its max_tiles argument
    tiles,              \* the tile plan
    idx,                \* query_overpass_with_chunking: the loop index i (1-based)
    all_elements,       \* query_overpass_with_chunking: all_elements
    successful_tiles,   \* query_overpass_with_chunking: successful_tiles
    result,             \* what query_overpass_with_chunking returned to main
    exception,          \* the exception that left the running call, if any
    queries,            \* history: every query issued, in order
    units,              \* history: what the source answered to each query
    places,             \* main: places
    args,               \* the arguments main passes to the fetch
    report,             \* main: the message of step 1
    summary,            \* main: the branch of the final summary
    overpass,           \* the Overpass service: "up", or "down" (unreachable)
    clock,              \* the time spent in time.sleep so far, in tenths of a second
    returned_at,        \* history: the clock when the last query returned
    raw_records,        \* extract_place_info: elements
    analysis,           \* main: analysis
    fuzz,               \* the scores of the three fuzzywuzzy algorithms
    call,               \* find_similar_names: target_name, all_names, threshold
    similar_names       \* find_similar_names: what it returned

\* the variables of the functions that main runs on what the fetch returned
pureVars == <<raw_records, analysis, fuzz, call, similar_names>>

vars == <<pc, bbox, max_tiles, tiles, idx, all_elements, successful_tiles,
          result, exception, queries, units, places, args, report, summary,
          overpass, clock, returned_at, pureVars>>

----------------------------------------------------------------------------
(* Bounds of the model. *)

\* coordinates are multiples of 1/UnitsPerDegree degree
UnitsPerDegree == 2
\* split_bbox_into_tiles is applied to boxes with corners in 0..MaxCoord
MaxCoord == 9
\* split_bbox_into_tiles is applied with max_tiles in 0..MaxMaxTiles
MaxMaxTiles == 17
\* the fetch is run on boxes with corners in 0..FetchMaxCoord
FetchMaxCoord == 3
\* extract_place_info is run on at most MaxRecords raw records
MaxRecords == 2

\* analyze_findings is run on at most MaxPlaces places
MaxPlaces == 3

\* find_similar_names is run on at most MaxNames candidate names
MaxNames == 3

\* the external source returns at most MaxElems elements during one fetch
MaxElems == 2

(* Program constants. *)

\* def split_bbox_into_tiles(bbox_str, max_tiles: int = 16)
DefaultMaxTiles == 16

\* time.sleep(0.5), in tenths of a second
PacingDelay == 5

\* analyze_findings: if similarity > 80
VariationThreshold == 80

\* def find_similar_names(target_name, all_names, threshold: int = 80)
DefaultThreshold == 80

\* find_similar_names: min_length = max(3, len(target_name) // 3)
MinNameLength == 3

----------------------------------------------------------------------------
(* Python values. *)

PyNone == [py |-> "None"]
Py(v) == [py |-> "obj", v |-> v]

\* bool(x) of a value that is None or a JSON object
Truthy(x) == x.py = "obj" /\ DOMAIN x.v # {}

\* 'key' in x, for x a JSON object
HasKey(x, key) == key \in DOMAIN x.v

----------------------------------------------------------------------------
(* Region Geometry. *)

Box(s, w, n, e) == [south |-> s, west |-> w, north |-> n, east |-> e, den |-> 1]

\* (north - south) * (east - west)
calculate_bbox_area(b) ==
    [num |-> (b.north - b.south) * (b.east - b.west),
     den |-> (UnitsPerDegree * b.den) * (UnitsPerDegree * b.den)]

\* area <= 1.0
AreaLeqOne(area) == area.num <= area.den

\* The loop of a mutant that never grows the grid.
GridLoop_NoLoop(grid_size, area, maxTiles) == grid_size

\* The loop of a mutant whose area test is exclusive (>= 1.0 keeps growing).
RECURSIVE GridLoop_Exclusive(_, _, _)
GridLoop_Exclusive(grid_size, area, maxTiles) ==
    IF grid_size * grid_size < maxTiles
       /\ area.num >= area.den * (grid_size * grid_size)
    THEN GridLoop_Exclusive(grid_size + 1, area, maxTiles)
    ELSE grid_size

\* while grid_size * grid_size < max_tiles and area / (grid_size * grid_size) > 1.0:
\*     grid_size += 1
RECURSIVE GridLoop(_, _, _)
GridLoop(grid_size, area, maxTiles) ==
    IF grid_size * grid_size < maxTiles
       /\ area.num > area.den * (grid_size * grid_size)
    THEN GridLoop(grid_size + 1, area, maxTiles)
    ELSE grid_size

\* A mutant tile with the roles of the loop indices exchanged (column-major).
TileBox_Transposed(b, grid_size, i, j) ==
    LET lat_range == b.north - b.south
        lon_range == b.east - b.west
    IN  [south |-> b.south * grid_size + j * lat_range,
         west  |-> b.west * grid_size + i * lon_range,
         north |-> b.south * grid_size + (j + 1) * lat_range,
         east  |-> b.west * grid_size + (i + 1) * lon_range,
         den   |-> b.den * grid_size]

\* The tile of row i and column j: lat_step = lat_range / grid_size is
\* lat_range units of the finer denominator den * grid_size.
TileBox(b, grid_size, i, j) ==
    LET lat_range == b.north - b.south
        lon_range == b.east - b.west
    IN  [south |-> b.south * grid_size + i * lat_range,
         west  |-> b.west * grid_size + j * lon_range,
         north |-> b.south * grid_size + (i + 1) * lat_range,
         east  |-> b.west * grid_size + (j + 1) * lon_range,
         den   |-> b.den * grid_size]

\* for i in range(grid_size): for j in range(grid_size): tiles.append(...)
TileGrid(b, grid_size) ==
    [k \in 1..(grid_size * grid_size) |->
        TileBox(b, grid_size, (k - 1) \div grid_size, (k - 1) % grid_size)]

\* A mutant that splits a box of area exactly 1.0.
split_bbox_into_tiles_Strict(b, maxTiles) ==
    LET area == calculate_bbox_area(b)
    IN  IF area.num < area.den
        THEN <<b>>
        ELSE TileGrid(b, GridLoop(2, area, maxTiles))

split_bbox_into_tiles(b, maxTiles) ==
    LET area == calculate_bbox_area(b)
    IN  IF AreaLeqOne(area)
        THEN <<b>>
        ELSE TileGrid(b, GridLoop(2, area, maxTiles))

----------------------------------------------------------------------------
(* Raw records of the external source. *)

\* a named point
NodeLotusMart ==
    [type |-> "node", id |-> 1, lat |-> 137, lon |-> 1005,
     tags |-> << <<"name", "Lotus Mart">>, <<"shop", "supermarket">> >>]
\* the same identity with other attributes
NodeLotus ==
    [type |-> "node", id |-> 1, lat |-> 138, lon |-> 1006,
     tags |-> << <<"amenity", "cafe">>, <<"name", "Lotus">> >>]
\* the same number under another type tag, with center coordinates
WayLotusMart ==
    [type |-> "way", id |-> 1, center |-> [lat |-> 137, lon |-> 1005],
     tags |-> << <<"name", "Lotus Mart">> >>]
\* a record without a name
NodeUnnamed ==
    [type |-> "node", id |-> 2, lat |-> 139, lon |-> 1007,
     tags |-> << <<"shop", "bakery">> >>]
\* a record without a type tag
NoTypeRecord ==
    [id |-> 1, lat |-> 137, lon |-> 1005, tags |-> << <<"name", "Lotus Mart">> >>]
\* a record without an identifier
NoIdRecord ==
    [type |-> "node", lat |-> 137, lon |-> 1005]

Elements ==
    {NodeLotusMart, NodeLotus, WayLotusMart, NodeUnnamed, NoTypeRecord, NoIdRecord}

\* the sequences over S of length at most n
RECURSIVE SeqsUpTo(_, _)
SeqsUpTo(S, n) ==
    IF n = 0 THEN {<<>>}
    ELSE LET shorter == SeqsUpTo(S, n - 1)
         IN  shorter \cup {Append(q, x) : q \in shorter, x \in S}

\* What one HTTP exchange can end in: a transport failure (including a bad
\* status), a body that is no JSON, or a decoded JSON object: the empty
\* object, an object without 'elements', an object with 'elements'.
Responses(budget) ==
    {[kind |-> "RequestException"], [kind |-> "JSONDecodeError"]}
    \cup {[kind |-> "json", body |-> b] :
            b \in {<<>>, [remark |-> "runtime error"]}
                  \cup {[elements |-> l] : l \in SeqsUpTo(Elements, budget)}}

\* The answer as a unit of work of the fetch: usable when it is a decoded
\* object with 'elements', and then with the records it carries; otherwise
\* failed, by a transport failure or by a malformed response.
Unit(resp) ==
    IF resp.kind = "json" /\ "elements" \in DOMAIN resp.body
    THEN [ok |-> TRUE, elements |-> resp.body.elements, failure |-> "none"]
    ELSE [ok |-> FALSE, elements |-> <<>>,
          failure |-> IF resp.kind = "RequestException" THEN "transport"
                      ELSE "malformed"]

\* What the source can answer: anything while it is up, a transport failure
\* while it is down.
SourceResponses(budget) ==
    IF overpass = "down" THEN {[kind |-> "RequestException"]} ELSE Responses(budget)

\* query_overpass: both except clauses return None
query_overpass(resp) ==
    IF resp.kind \in {"RequestException", "JSONDecodeError"}
    THEN PyNone
    ELSE Py(resp.body)

----------------------------------------------------------------------------
(* Query Planner: a payload is kept as the parameters it is built from. *)

generate_overpass_query(search_term, b, place_types, exact_match, timeout) ==
    [name_pattern |-> <<search_term, exact_match>>, bbox |-> b,
     place_types |-> place_types, timeout |-> timeout]

generate_broad_overpass_query(b, place_types, timeout) ==
    [name_pattern |-> <<"any name">>, bbox |-> b,
     place_types |-> place_types, timeout |-> timeout]

\* A mutant that leaves the timeout of the call out of the payload.
PlanQuery_DefaultTimeout(a, b) ==
    IF a.broad_search
    THEN generate_broad_overpass_query(b, a.place_types, 60)
    ELSE generate_overpass_query(a.search_term, b, a.place_types, a.exact_match, 60)

\* if broad_search: ... else: ...
PlanQuery(a, b) ==
    IF a.broad_search
    THEN generate_broad_overpass_query(b, a.place_types, a.timeout)
    ELSE generate_overpass_query(a.search_term, b, a.place_types,
                                 a.exact_match, a.timeout)

----------------------------------------------------------------------------
(* Fetch Orchestrator: deduplication. *)

\* element_id = f"{element['type']}{element['id']}"
ElementId(element) == element.type \o ToString(element.id)

\* A mutant loop in which the last occurrence replaces the first.
RECURSIVE DedupLoop_LastWins(_, _, _)
DedupLoop_LastWins(elements, seen_ids, unique_elements) ==
    IF elements = <<>> THEN unique_elements
    ELSE LET element == Head(elements)
             element_id == ElementId(element)
         IN  IF element_id \notin seen_ids
             THEN DedupLoop_LastWins(Tail(elements), seen_ids \cup {element_id},
                                     Append(unique_elements, element))
             ELSE DedupLoop_LastWins(Tail(elements), seen_ids,
                     [k \in 1..Len(unique_elements) |->
                        IF ElementId(unique_elements[k]) = element_id
                        THEN element ELSE unique_elements[k]])

\* for element in all_elements: ... if element_id not in seen_ids: ...
RECURSIVE DedupLoop(_, _, _)
DedupLoop(elements, seen_ids, unique_elements) ==
    IF elements = <<>> THEN unique_elements
    ELSE LET element == Head(elements)
             element_id == ElementId(element)
         IN  IF element_id \notin seen_ids
             THEN DedupLoop(Tail(elements), seen_ids \cup {element_id},
                            Append(unique_elements, element))
             ELSE DedupLoop(Tail(elements), seen_ids, unique_elements)

\* element['type'] or element['id'] raises KeyError
DedupRaises(elements) ==
    \E k \in 1..Len(elements) :
        "type" \notin DOMAIN elements[k] \/ "id" \notin DOMAIN elements[k]

----------------------------------------------------------------------------
(* Record Normalizer. *)

\* 'key' in tags
HasTag(tags, key) == \E k \in 1..Len(tags) : tags[k][1] = key

\* tags[key]
TagValue(tags, key) == tags[CHOOSE k \in 1..Len(tags) : tags[k][1] = key][2]

\* tags.get(key, None)
TagGet(tags, key) == IF HasTag(tags, key) THEN Py(TagValue(tags, key)) ELSE PyNone

\* if 'tags' in element and 'name' in element['tags']
Named(element) == "tags" \in DOMAIN element /\ HasTag(element.tags, "name")

CategoryKeys == {"amenity", "shop", "leisure", "tourism", "healthcare", "education"}

\* for key, value in tags.items(): if key in [...]: ...; break
Category(tags) ==
    LET hits == {k \in 1..Len(tags) : tags[k][1] \in CategoryKeys}
    IN  IF hits = {} THEN <<"unknown", "unknown">>
        ELSE tags[CHOOSE k \in hits : \A h \in hits : k <= h]

\* ', '.join(address_parts) if address_parts else None
RECURSIVE Join(_)
Join(parts) ==
    IF Len(parts) = 1 THEN parts[1] ELSE parts[1] \o ", " \o Join(Tail(parts))

Address(tags) ==
    LET Part(key) == IF HasTag(tags, key) THEN <<TagValue(tags, key)>> ELSE <<>>
        address_parts == Part("addr:housenumber") \o Part("addr:street")
                         \o Part("addr:district") \o Part("addr:city")
    IN  IF address_parts = <<>> THEN PyNone ELSE Py(Join(address_parts))

\* the coordinates of a named element
Coordinates(element) ==
    IF element.type = "node"
    THEN <<Py(element.lat), Py(element.lon)>>
    ELSE IF "center" \in DOMAIN element
         THEN <<Py(element.center.lat), Py(element.center.lon)>>
         ELSE <<PyNone, PyNone>>

\* place_info of a named element
PlaceInfo(element) ==
    LET tags == element.tags
    IN  [name |-> TagValue(tags, "name"),
         type |-> element.type,
         id |-> element.id,
         lat |-> Coordinates(element)[1],
         lon |-> Coordinates(element)[2],
         category |-> Category(tags)[1],
         subcategory |-> Category(tags)[2],
         address |-> Address(tags),
         phone |-> TagGet(tags, "phone"),
         website |-> TagGet(tags, "website"),
         opening_hours |-> TagGet(tags, "opening_hours"),
         brand |-> TagGet(tags, "brand"),
         cuisine |-> TagGet(tags, "cuisine"),
         tags |-> tags]

\* a subscript of extract_place_info raises KeyError on this named element
PlaceInfoRaises(element) ==
    \/ "type" \notin DOMAIN element
    \/ "id" \notin DOMAIN element
    \/ /\ element.type = "node"
       /\ ("lat" \notin DOMAIN element \/ "lon" \notin DOMAIN element)
    \/ /\ element.type # "node"
       /\ "center" \in DOMAIN element
       /\ {"lat", "lon"} \ DOMAIN element.center # {}

ExtractRaises(elements) ==
    \E k \in 1..Len(elements) : Named(elements[k]) /\ PlaceInfoRaises(elements[k])

\* for element in elements: if ...: places.append(place_info)
RECURSIVE extract_place_info(_)
extract_place_info(elements) ==
    IF elements = <<>> THEN <<>>
    ELSE IF Named(Head(elements))
         THEN <<PlaceInfo(Head(elements))>> \o extract_place_info(Tail(elements))
         ELSE extract_place_info(Tail(elements))

----------------------------------------------------------------------------
(* The fetch, query_overpass_with_chunking, as main calls it. *)

\* the boxes the fetch is run on; the bounds invariant is not assumed
FetchRegions ==
    {Box(s, 0, n, e) : s \in 0..1, n \in 0..FetchMaxCoord, e \in 0..FetchMaxCoord}

\* main: search_term, place_types, exact_match, timeout of the first fetch
CallArgs ==
    {[search_term |-> "Lotus", place_types |-> <<"shop">>, exact_match |-> FALSE,
      timeout |-> 60, broad_search |-> FALSE],
     [search_term |-> "Lotus Mart", place_types |-> <<>>, exact_match |-> TRUE,
      timeout |-> 25, broad_search |-> FALSE]}

\* the functions of the later steps of main have not been called
PureIdle ==
    /\ raw_records = <<>>
    /\ analysis = PyNone
    /\ fuzz = <<>>
    /\ call = PyNone
    /\ similar_names = <<>>

\* A mutant that does not pause.
Sleep_Skipped(t) == t

\* time.sleep(0.5): the clock after the pause
Sleep(t) == t + PacingDelay

Init ==
    /\ pc = "main"
    /\ bbox \in FetchRegions
    /\ args \in CallArgs
    /\ max_tiles = DefaultMaxTiles
    /\ tiles = <<>>
    /\ idx = 0
    /\ all_elements = <<>>
    /\ successful_tiles = 0
    /\ result = PyNone
    /\ exception = "none"
    /\ queries = <<>>
    /\ units = <<>>
    /\ places = <<>>
    /\ report = "none"
    /\ summary = "none"
    /\ overpass = "up"
    /\ clock = 0
    /\ returned_at = 0
    /\ PureIdle

\* lines 219-233: the area decides between the single query, issued here,
\* and the tile plan
FetchStart ==
    /\ pc = "main"
    /\ IF AreaLeqOne(calculate_bbox_area(bbox))
       THEN /\ queries' = Append(queries, PlanQuery(args, bbox))
            /\ pc' = "single_wait"
            /\ UNCHANGED <<tiles, idx>>
       ELSE /\ tiles' = split_bbox_into_tiles(bbox, DefaultMaxTiles)
            /\ idx' = 1
            /\ pc' = "tile_query"
            /\ UNCHANGED queries
    /\ UNCHANGED <<bbox, max_tiles, all_elements, successful_tiles, result,
                   exception, units, places, args, report, summary>>
    /\ UNCHANGED <<overpass, clock, returned_at, pureVars>>

\* line 229: return query_overpass(query)
SingleResponse ==
    /\ pc = "single_wait"
    /\ \E resp \in SourceResponses(MaxElems) :
          /\ result' = query_overpass(resp)
          /\ units' = Append(units, Unit(resp))
    /\ pc' = "fetch_returned"
    /\ UNCHANGED <<bbox, max_tiles, tiles, idx, all_elements, successful_tiles,
                   exception, queries, places, args, report, summary>>
    /\ returned_at' = clock
    /\ UNCHANGED <<overpass, clock, pureVars>>

\* lines 240-248: the query of tile idx is planned and issued
TileQuery ==
    /\ pc = "tile_query"
    /\ queries' = Append(queries, PlanQuery(args, tiles[idx]))
    /\ pc' = "tile_wait"
    /\ UNCHANGED <<bbox, max_tiles, tiles, idx, all_elements, successful_tiles,
                   result, exception, units, places, args, report, summary>>
    /\ UNCHANGED <<overpass, clock, returned_at, pureVars>>

\* A mutant that gives up on the first failed tile.
TileOutcome_Abort(r) ==
    IF Truthy(r) /\ HasKey(r, "elements")
    THEN /\ all_elements' = all_elements \o r.v.elements
         /\ successful_tiles' = successful_tiles + 1
         /\ UNCHANGED idx
    ELSE /\ idx' = Len(tiles)
         /\ UNCHANGED <<all_elements, successful_tiles>>

\* lines 250-256: if result and 'elements' in result: ... else: ...
TileOutcome(r) ==
    IF Truthy(r) /\ HasKey(r, "elements")
    THEN /\ all_elements' = all_elements \o r.v.elements
         /\ successful_tiles' = successful_tiles + 1
         /\ UNCHANGED idx
    ELSE UNCHANGED <<idx, all_elements, successful_tiles>>

\* lines 248-256: query_overpass returns for tile idx
TileResponse ==
    /\ pc = "tile_wait"
    /\ \E resp \in SourceResponses(MaxElems - Len(all_elements)) :
          /\ TileOutcome(query_overpass(resp))
          /\ units' = Append(units, Unit(resp))
    /\ pc' = "tile_sleep"
    /\ UNCHANGED <<bbox, max_tiles, tiles, result, exception, queries, places,
                   args, report, summary>>
    /\ returned_at' = clock
    /\ UNCHANGED <<overpass, clock, pureVars>>

\* line 259: time.sleep(0.5) returns; the loop goes to the next tile, or ends
TileSleep ==
    /\ pc = "tile_sleep"
    /\ idx' = idx + 1
    /\ pc' = IF idx < Len(tiles) THEN "tile_query" ELSE "dedup"
    /\ UNCHANGED <<bbox, max_tiles, tiles, all_elements, successful_tiles, result,
                   exception, queries, units, places, args, report, summary>>
    /\ clock' = Sleep(clock)
    /\ UNCHANGED <<overpass, returned_at, pureVars>>

\* lines 263-280: the deduplication loop and the return
Deduplicate ==
    /\ pc = "dedup"
    /\ IF DedupRaises(all_elements)
       THEN /\ exception' = "KeyError"
            /\ pc' = "fetch_raised"
            /\ UNCHANGED result
       ELSE /\ result' = Py([elements |-> DedupLoop(all_elements, {}, <<>>),
                             generator |-> "place_detective_chunked"])
            /\ pc' = "fetch_returned"
            /\ UNCHANGED exception
    /\ UNCHANGED <<bbox, max_tiles, tiles, idx, all_elements, successful_tiles,
                   queries, units, places, args, report, summary>>
    /\ UNCHANGED <<overpass, clock, returned_at, pureVars>>

\* main, lines 612-678 and 797-826: step 1 reports on the result, step 2
\* runs the analysis when there are places, and the final summary takes its
\* "incomplete" branch when no analysis was made
MainReport ==
    /\ pc = "fetch_returned"
    /\ IF ~Truthy(result)
       THEN /\ report' = "Query failed"
            /\ places' = <<>>
            /\ summary' = "data retrieval issues"
            /\ pc' = "done"
            /\ UNCHANGED exception
       ELSE IF ~HasKey(result, "elements") \/ ExtractRaises(result.v.elements)
       THEN /\ exception' = "KeyError"
            /\ pc' = "main_raised"
            /\ UNCHANGED <<places, report, summary>>
       ELSE /\ places' = extract_place_info(result.v.elements)
            /\ report' = IF places' # <<>> THEN "Found places"
                         ELSE "No places found with specified criteria"
            /\ summary' = IF places' # <<>> THEN "analysis"
                          ELSE "data retrieval issues"
            /\ pc' = "done"
            /\ UNCHANGED exception
    /\ UNCHANGED <<bbox, max_tiles, tiles, idx, all_elements, successful_tiles,
                   result, queries, units, args>>
    /\ UNCHANGED <<overpass, clock, returned_at, pureVars>>

Next ==
    \/ FetchStart
    \/ SingleResponse
    \/ TileQuery
    \/ TileResponse
    \/ TileSleep
    \/ Deduplicate
    \/ MainReport

Spec == Init /\ [][Next]_vars

----------------------------------------------------------------------------
(* split_bbox_into_tiles on its own, for any box and any max_tiles. *)

\* boxes with corners on the grid, the inverted and the empty ones included
TileRegions ==
    {Box(s, w, n, e) : s \in {0, 1, MaxCoord}, w \in {0, 1, MaxCoord},
                       n \in 0..MaxCoord, e \in 0..MaxCoord}

TileInit ==
    /\ pc = "split"
    /\ bbox \in TileRegions
    /\ max_tiles \in 0..MaxMaxTiles
    /\ args = CHOOSE a \in CallArgs : a.exact_match
    /\ tiles = <<>>
    /\ idx = 0
    /\ all_elements = <<>>
    /\ successful_tiles = 0
    /\ result = PyNone
    /\ exception = "none"
    /\ queries = <<>>
    /\ units = <<>>
    /\ places = <<>>
    /\ report = "none"
    /\ summary = "none"
    /\ overpass = "up"
    /\ clock = 0
    /\ returned_at = 0
    /\ PureIdle

\* tiles = split_bbox_into_tiles(bbox, max_tiles)
SplitBbox ==
    /\ pc = "split"
    /\ tiles' = split_bbox_into_tiles(bbox, max_tiles)
    /\ pc' = "split_done"
    /\ UNCHANGED <<bbox, max_tiles, idx, all_elements, successful_tiles, result,
                   exception, queries, units, places, args, report, summary>>
    /\ UNCHANGED <<overpass, clock, returned_at, pureVars>>

TileNext == SplitBbox

SpecTile == TileInit /\ [][TileNext]_vars

----------------------------------------------------------------------------
(* Properties of the tile plan. *)

\* the bounds invariant of a Region: south < north, west < east
ValidRegion(b) == b.south < b.north /\ b.west < b.east

\* the area of the box of the call
BboxArea == calculate_bbox_area(bbox)

\* the area is exactly n square degrees
AreaIs(area, n) == area.num = n * area.den

\* the exit condition of the grid-sizing rule for grid size g
GridExit(g) == g * g >= max_tiles \/ BboxArea.num <= BboxArea.den * (g * g)

\* g is the smallest integer >= 2 that satisfies the exit condition
SmallestGrid(g) == g >= 2 /\ GridExit(g) /\ \A h \in 2..(g - 1) : ~GridExit(h)

\* C7: for a box of area > 1.0 and any max_tiles, split_bbox_into_tiles
\* returns exactly g*g tiles for the smallest g >= 2 with g*g >= max_tiles or
\* area/(g*g) <= 1.0; area 9.0 with max_tiles = 16 gives 9 tiles; the count is
\* g*g also when that is more than max_tiles.
C7_TileCountIsSmallestGridSquared ==
    (pc = "split_done" /\ ~AreaLeqOne(BboxArea)) =>
        /\ \E g \in 2..Len(tiles) : SmallestGrid(g) /\ Len(tiles) = g * g
        /\ (AreaIs(BboxArea, 9) /\ max_tiles = 16) => Len(tiles) = 9

\* C7 witness: area 9.0 with max_tiles = 16 was split into 9 tiles.
C7_Witness ==
    /\ pc = "split_done"
    /\ AreaIs(BboxArea, 9)
    /\ max_tiles = 16
    /\ Len(tiles) = 9

\* C8: for a box of area <= 1.0 (1.0 included) and any max_tiles,
\* split_bbox_into_tiles returns one tile, the box of the call unchanged.
C8_SmallBoxIsItsOnlyTile ==
    (pc = "split_done" /\ AreaLeqOne(BboxArea)) => tiles = <<bbox>>

\* C8 witness: a valid box of area exactly 1.0 came back as its only tile.
C8_Witness ==
    /\ pc = "split_done"
    /\ ValidRegion(bbox)
    /\ AreaIs(BboxArea, 1)
    /\ max_tiles > 1
    /\ tiles = <<bbox>>

\* c1/d1 = c2/d2 and c1/d1 <= c2/d2 for coordinates over positive denominators
CoordEq(c1, d1, c2, d2) == c1 * d2 = c2 * d1
CoordLeq(c1, d1, c2, d2) == c1 * d2 <= c2 * d1

\* the interiors of two tiles are disjoint
InteriorsDisjoint(t, u) ==
    \/ CoordLeq(t.north, t.den, u.south, u.den)
    \/ CoordLeq(u.north, u.den, t.south, t.den)
    \/ CoordLeq(t.east, t.den, u.west, u.den)
    \/ CoordLeq(u.east, u.den, t.west, t.den)

RECURSIVE SumAreaNum(_)
SumAreaNum(plan) ==
    IF plan = <<>> THEN 0
    ELSE calculate_bbox_area(Head(plan)).num + SumAreaNum(Tail(plan))

\* the tile plan is the exact g-by-g row-major partition of the box
IsGridPartition(b, plan, g) ==
    LET T(i, j) == plan[i * g + j + 1]
        lat_range == b.north - b.south
        lon_range == b.east - b.west
        rows == 0..(g - 1)
    IN  /\ Len(plan) = g * g
        /\ \A i \in rows, j \in rows :
              \* the span of tile i*g+j
              /\ CoordEq(T(i, j).south, T(i, j).den, b.south * g + i * lat_range, b.den * g)
              /\ CoordEq(T(i, j).north, T(i, j).den, b.south * g + (i + 1) * lat_range, b.den * g)
              /\ CoordEq(T(i, j).west, T(i, j).den, b.west * g + j * lon_range, b.den * g)
              /\ CoordEq(T(i, j).east, T(i, j).den, b.west * g + (j + 1) * lon_range, b.den * g)
              /\ ValidRegion(T(i, j))
              \* neighbours share their common edge
              /\ i < g - 1 => CoordEq(T(i, j).north, T(i, j).den, T(i + 1, j).south, T(i + 1, j).den)
              /\ j < g - 1 => CoordEq(T(i, j).east, T(i, j).den, T(i, j + 1).west, T(i, j + 1).den)
              \* the outer edges are those of the box
              /\ i = 0 => CoordEq(T(i, j).south, T(i, j).den, b.south, b.den)
              /\ i = g - 1 => CoordEq(T(i, j).north, T(i, j).den, b.north, b.den)
              /\ j = 0 => CoordEq(T(i, j).west, T(i, j).den, b.west, b.den)
              /\ j = g - 1 => CoordEq(T(i, j).east, T(i, j).den, b.east, b.den)
        /\ \A k, h \in 1..Len(plan) : k # h => InteriorsDisjoint(plan[k], plan[h])
        \* all tiles are measured over one denominator, and their areas add up
        /\ \A k \in 1..Len(plan) :
              calculate_bbox_area(plan[k]).den = calculate_bbox_area(plan[1]).den
        /\ SumAreaNum(plan) * calculate_bbox_area(b).den
              = calculate_bbox_area(b).num * calculate_bbox_area(plan[1]).den

\* C9: for a valid box of area > 1.0 the tiles are an exact g-by-g partition
\* in row-major order: tile i*g+j spans row i (south to north) and column j
\* (west to east), neighbours share their edge, interiors do not overlap, the
\* outer edges are the box's and the tile areas sum to the area of the box.
C9_TilesPartitionTheBox ==
    (pc = "split_done" /\ ValidRegion(bbox) /\ ~AreaLeqOne(BboxArea)) =>
        \E g \in 2..Len(tiles) : IsGridPartition(bbox, tiles, g)

\* C9 witness: a valid box that is not a square was split into a 3-by-3 grid.
C9_Witness ==
    /\ pc = "split_done"
    /\ ValidRegion(bbox)
    /\ bbox.north - bbox.south # bbox.east - bbox.west
    /\ bbox.south # bbox.west
    /\ Len(tiles) = 9
    /\ IsGridPartition(bbox, tiles, 3)

\* C10: in every tile plan each tile has area <= 1.0 unless the grid size
\* reached the cap (g*g >= max_tiles); with g*g < max_tiles all tiles have
\* area <= 1.0.
C10_TilesUnderCeilingUnlessCapped ==
    pc = "split_done" =>
        \/ \A k \in 1..Len(tiles) : AreaLeqOne(calculate_bbox_area(tiles[k]))
        \/ Len(tiles) > 1 /\ Len(tiles) >= max_tiles

\* C10 witness: a grid below the cap was enough to bring the tiles of a box
\* of area > 1.0 under the ceiling.
C10_Witness ==
    /\ pc = "split_done"
    /\ ~AreaLeqOne(BboxArea)
    /\ Len(tiles) = 9
    /\ Len(tiles) < max_tiles
    /\ \A k \in 1..Len(tiles) : AreaLeqOne(calculate_bbox_area(tiles[k]))

----------------------------------------------------------------------------
(* Properties of the fetch. *)

\* the fetch took the tiled path (area > 1.0)
Tiled == ~AreaLeqOne(BboxArea)

\* query_overpass_with_chunking has returned to main
FetchReturned == pc \in {"fetch_returned", "done", "main_raised"}

\* the tile loop is over
LoopOver == pc \in {"dedup", "fetch_raised", "fetch_returned", "done", "main_raised"}

\* the stable identity of a raw record
Identity(element) == <<element.type, element.id>>

\* the records of the usable units, in unit order and then position order
RECURSIVE Collected(_)
Collected(us) ==
    IF us = <<>> THEN <<>>
    ELSE (IF Head(us).ok THEN Head(us).elements ELSE <<>>) \o Collected(Tail(us))

\* the position of the first record of source with the identity ident
FirstIndex(source, ident) ==
    CHOOSE k \in 1..Len(source) :
        /\ Identity(source[k]) = ident
        /\ \A h \in 1..(k - 1) : Identity(source[h]) # ident

\* source without the records whose identity occurred before them
KeepFirst(source) ==
    LET keep == {k \in 1..Len(source) : FirstIndex(source, Identity(source[k])) = k}
        Nth(m) == CHOOSE k \in keep : Cardinality({h \in keep : h < k}) = m - 1
    IN  [m \in 1..Cardinality(keep) |-> source[Nth(m)]]

\* the source could not be reached for any unit of work of the fetch
AllUnitsFailed ==
    units # <<>> /\ \A k \in 1..Len(units) : units[k].failure = "transport"

\* the source answered every unit of work, with no record at all
NothingMatched ==
    units # <<>> /\ \A k \in 1..Len(units) : units[k].ok /\ units[k].elements = <<>>

\* C1: on the single-query path (area <= 1.0), when the source returns two
\* or more named records with the same (type, id), fetch and normalization
\* yield exactly one Place Record for that (type, id).
C1_SinglePathOnePlacePerIdentity ==
    (ValidRegion(bbox) /\ ~Tiled /\ pc = "done" /\ units[1].ok) =>
        \A k \in 1..Len(units[1].elements) :
            LET element == units[1].elements[k]
            IN  Named(element) =>
                   Cardinality({h \in 1..Len(places) :
                                   /\ places[h].type = element.type
                                   /\ places[h].id = element.id}) = 1

C3_NoDataIsDistinguishable ==
    /\ (pc = "fetch_returned" /\ AllUnitsFailed) => ~Truthy(result)
    /\ (pc = "fetch_returned" /\ NothingMatched) => Truthy(result)
    /\ (pc = "done" /\ AllUnitsFailed) => report = "Query failed"
    /\ (pc = "done" /\ NothingMatched) =>
           report = "No places found with specified criteria"

\* C4: on the tiled path the returned list holds no two records of equal
\* (type, id); of each (type, id) of a successful tile the first occurrence
\* in tile-then-position order survives, unmerged; the survivors keep their
\* order of collection, and records of different (type, id) stay apart.
C4_FirstOccurrenceSurvives ==
    (Tiled /\ FetchReturned) =>
        LET out == result.v.elements
            source == Collected(units)
        IN  /\ \A k, h \in 1..Len(out) :
                  k # h => Identity(out[k]) # Identity(out[h])
            /\ \A m \in 1..Len(source) :
                  \E k \in 1..Len(out) :
                      out[k] = source[FirstIndex(source, Identity(source[m]))]
            /\ \A k \in 1..Len(out) : \E m \in 1..Len(source) : out[k] = source[m]
            /\ \A k, h \in 1..Len(out) :
                  k < h => FirstIndex(source, Identity(out[k]))
                              < FirstIndex(source, Identity(out[h]))
            /\ Len(out) = Cardinality({Identity(source[m]) : m \in 1..Len(source)})

\* C4 witness: two tiles returned records of one identity with different
\* attributes, and the record of the earlier tile is the one returned.
C4_Witness ==
    /\ Tiled
    /\ pc = "fetch_returned"
    /\ units[2].ok /\ units[2].elements = <<NodeLotus>>
    /\ units[3].ok /\ units[3].elements = <<NodeLotusMart>>
    /\ result.v.elements = <<NodeLotus>>

\* C5: whatever the source answers to a query (transport failure, undecodable
\* body, decoded body without 'elements', elements without type or id), the
\* unit is treated as "no data" and no exception leaves the fetch.
C5_FetchNeverRaises ==
    /\ pc # "fetch_raised"
    /\ (pc = "fetch_returned" /\ ~Tiled /\ units[1].failure = "transport")
           => ~Truthy(result)
    /\ (pc # "main" /\ Tiled) => all_elements = Collected(units)

\* C6: a box that violates south < north or west < east is rejected with a
\* configuration error before any query is planned or issued; tiling and
\* fetch do not proceed on it.
C6_InvalidRegionRejected ==
    (~ValidRegion(bbox) /\ pc # "main") =>
        /\ exception = "ConfigurationError"
        /\ queries = <<>>
        /\ tiles = <<>>

----------------------------------------------------------------------------
(* extract_place_info on its own, for any list of raw records. *)

\* the attribute maps of the raw records: the two category keys in both
\* orders, one category key, no category key, no name
NormTags ==
    << <<<<"name", "Lotus">>, <<"amenity", "cafe">>, <<"shop", "bakery">>>>,
       <<<<"name", "Lotus">>, <<"shop", "bakery">>, <<"amenity", "cafe">>>>,
       <<<<"name", "Lotus Mart">>, <<"tourism", "hotel">>>>,
       <<<<"brand", "Lotus">>, <<"name", "Lotus Go">>>>,
       <<<<"shop", "bakery">>>> >>

\* the coordinates a raw record carries: none, direct, center, or both
NormForms == <<"none", "direct", "center", "both">>

\* A raw record of the source: a type tag, an identifier, optional direct
\* coordinates, an optional center, an optional attribute map (t = 0: none).
RawRecord(type, f, t) ==
    LET base == [type |-> type, id |-> 10 * t + f]
        direct == IF NormForms[f] \in {"direct", "both"}
                  THEN [lat |-> 13, lon |-> 100] ELSE <<>>
        center == IF NormForms[f] \in {"center", "both"}
                  THEN [center |-> [lat |-> 14, lon |-> 101]] ELSE <<>>
        tagged == IF t = 0 THEN <<>> ELSE [tags |-> NormTags[t]]
    IN  base @@ direct @@ center @@ tagged

NormElements ==
    {RawRecord(type, f, t) : type \in {"node", "way"},
                             f \in 1..Len(NormForms), t \in 0..Len(NormTags)}

\* the fetch is not running
FetchIdle ==
    /\ bbox = Box(0, 0, 0, 0)
    /\ args = CHOOSE a \in CallArgs : a.exact_match
    /\ max_tiles = DefaultMaxTiles
    /\ tiles = <<>>
    /\ idx = 0
    /\ all_elements = <<>>
    /\ successful_tiles = 0
    /\ result = PyNone
    /\ queries = <<>>
    /\ units = <<>>
    /\ report = "none"
    /\ summary = "none"
    /\ overpass = "up"
    /\ clock = 0
    /\ returned_at = 0

fetchVars == <<bbox, max_tiles, tiles, idx, all_elements, successful_tiles,
               result, queries, units, args, report, summary, overpass, clock,
               returned_at>>

NormInit ==
    /\ pc = "extract"
    /\ raw_records \in SeqsUpTo(NormElements, MaxRecords)
    /\ places = <<>>
    /\ exception = "none"
    /\ analysis = PyNone
    /\ fuzz = <<>>
    /\ call = PyNone
    /\ similar_names = <<>>
    /\ FetchIdle

\* places = extract_place_info(raw_records)
ExtractPlaceInfo ==
    /\ pc = "extract"
    /\ IF ExtractRaises(raw_records)
       THEN /\ exception' = "KeyError"
            /\ pc' = "extract_raised"
            /\ UNCHANGED places
       ELSE /\ places' = extract_place_info(raw_records)
            /\ pc' = "extracted"
            /\ UNCHANGED exception
    /\ UNCHANGED <<fetchVars, pureVars>>

NormNext == ExtractPlaceInfo

SpecNorm == NormInit /\ [][NormNext]_vars

----------------------------------------------------------------------------
(* Properties of the normalizer. *)

\* the priority list of the category keys
CategoryPriority ==
    <<"amenity", "shop", "leisure", "tourism", "healthcare", "education">>

\* the earliest key of the priority list that the map has, with its value
ByPriority(tags) ==
    LET hits == {k \in 1..Len(CategoryPriority) : HasTag(tags, CategoryPriority[k])}
    IN  IF hits = {} THEN <<"unknown", "unknown">>
        ELSE LET key == CategoryPriority[CHOOSE k \in hits : \A h \in hits : k <= h]
             IN  <<key, TagValue(tags, key)>>

\* the named records of the input, in input order
NamedRecords(records) == SelectSeq(records, Named)

\* the call of extract_place_info is over, by a return or by an exception
ExtractOver == pc \in {"extracted", "extract_raised"}

\* C11: every Place Record returned has as category the earliest key of the
\* priority list amenity, shop, leisure, tourism, healthcare, education that
\* its attribute map has, in any key order, and as subcategory its value;
\* unknown/unknown when it has none.
C11_CategoryFollowsPriority ==
    pc = "extracted" =>
        \A k \in 1..Len(places) :
            <<places[k].category, places[k].subcategory>> = ByPriority(places[k].tags)

\* the record has direct coordinates, a center
HasDirect(element) == {"lat", "lon"} \subseteq DOMAIN element
HasCenter(element) == "center" \in DOMAIN element

\* the coordinates the resolution order gives a record
ResolvedCoordinates(element) ==
    IF element.type = "node" /\ HasDirect(element)
    THEN <<Py(element.lat), Py(element.lon)>>
    ELSE IF element.type # "node" /\ HasCenter(element)
         THEN <<Py(element.center.lat), Py(element.center.lon)>>
         ELSE <<PyNone, PyNone>>

\* C12: normalization does not fail, and every named record gets the direct
\* coordinates if it is a node, otherwise those of its center if it has one,
\* otherwise null for both; a record with neither gets null for both, and no
\* Place Record has exactly one of lat and lon null.
C12_CoordinatesResolvedNeverFailing ==
    ExtractOver =>
        /\ pc = "extracted"
        /\ Len(places) = Len(NamedRecords(raw_records))
        /\ \A k \in 1..Len(places) :
              /\ <<places[k].lat, places[k].lon>>
                    = ResolvedCoordinates(NamedRecords(raw_records)[k])
              /\ (places[k].lat = PyNone) <=> (places[k].lon = PyNone)

\* C13: extract_place_info returns one Place Record per named raw record, in
\* input order, with the type, id and name of that record, and nothing for
\* a record without tags or without a name.
C13_OnePlacePerNamedRecord ==
    ExtractOver =>
        /\ pc = "extracted"
        /\ Len(places) = Len(NamedRecords(raw_records))
        /\ \A k \in 1..Len(places) :
              LET element == NamedRecords(raw_records)[k]
              IN  /\ places[k].type = element.type
                  /\ places[k].id = element.id
                  /\ places[k].name = TagValue(element.tags, "name")

----------------------------------------------------------------------------
(* Strings.  A name that is compared is the sequence of its characters;  *)
(* "I-dot" stands for U+0130, whose lowercase is the two characters      *)
(* U+0069 U+0307 ("i", "dot-above").                                     *)

\* str.lower() of one character
LowerChar(c) ==
    CASE c = "L" -> <<"l">>
      [] c = "O" -> <<"o">>
      [] c = "T" -> <<"t">>
      [] c = "I-dot" -> <<"i", "dot-above">>
      [] OTHER -> <<c>>

\* str.lower()
RECURSIVE Lower(_)
Lower(str) ==
    IF str = <<>> THEN <<>> ELSE LowerChar(Head(str)) \o Lower(Tail(str))

\* The scores of fuzzywuzzy, an external library, are given by the tables of
\* the variable fuzz, one table per algorithm, on pairs of strings.
FuzzRatio(s1, s2) == fuzz.ratio[<<s1, s2>>]
FuzzTokenSortRatio(s1, s2) == fuzz.token_sort_ratio[<<s1, s2>>]
FuzzTokenSetRatio(s1, s2) == fuzz.token_set_ratio[<<s1, s2>>]

\* the tables of one algorithm on the strings of S: equal strings score 100,
\* other pairs score any value of scores
ScoreTables(S, scores) ==
    {t \in [S \X S -> scores \cup {100}] :
        \A x, y \in S : IF x = y THEN t[<<x, y>>] = 100 ELSE t[<<x, y>>] \in scores}

----------------------------------------------------------------------------
(* analyze_findings. *)

\* 'name' in name_groups, name_groups[name]
HasGroup(name_groups, name) == \E k \in 1..Len(name_groups) : name_groups[k][1] = name
GroupOf(name_groups, name) ==
    name_groups[CHOOSE k \in 1..Len(name_groups) : name_groups[k][1] = name][2]

\* A mutant in which a group keeps only its last place.
RECURSIVE GroupLoop_Overwrite(_, _)
GroupLoop_Overwrite(place_list, name_groups) ==
    IF place_list = <<>> THEN name_groups
    ELSE LET place == Head(place_list)
             name == place.name
         IN  IF ~HasGroup(name_groups, name)
             THEN GroupLoop_Overwrite(Tail(place_list),
                                      Append(name_groups, <<name, <<place>>>>))
             ELSE GroupLoop_Overwrite(Tail(place_list),
                     [k \in 1..Len(name_groups) |->
                        IF name_groups[k][1] = name
                        THEN <<name, <<place>>>> ELSE name_groups[k]])

\* for place in places: ... name_groups[name].append(place); the dict is kept
\* as the sequence of its <<name, group>> pairs, in insertion order
RECURSIVE GroupLoop(_, _)
GroupLoop(place_list, name_groups) ==
    IF place_list = <<>> THEN name_groups
    ELSE LET place == Head(place_list)
             name == place.name
         IN  IF ~HasGroup(name_groups, name)
             THEN GroupLoop(Tail(place_list), Append(name_groups, <<name, <<place>>>>))
             ELSE GroupLoop(Tail(place_list),
                     [k \in 1..Len(name_groups) |->
                        IF name_groups[k][1] = name
                        THEN <<name, Append(name_groups[k][2], place)>>
                        ELSE name_groups[k]])

\* for name, group in name_groups.items(): if len(group) > 1: ...
MultipleLocations(name_groups) ==
    LET Several(entry) == Len(entry[2]) > 1
    IN  SelectSeq(name_groups, Several)

\* A mutant that also keeps a pair scoring exactly the threshold.
VariationKept_Inclusive(similarity) == similarity >= VariationThreshold

\* if similarity > 80
VariationKept(similarity) == similarity > VariationThreshold

\* for i, name1 in enumerate(names): for name2 in names[i+1:]: ...
RECURSIVE VariationLoop(_, _, _, _)
VariationLoop(name_groups, i, j, name_variations) ==
    IF i > Len(name_groups) THEN name_variations
    ELSE IF j > Len(name_groups)
    THEN VariationLoop(name_groups, i + 1, i + 2, name_variations)
    ELSE LET name1 == name_groups[i][1]
             name2 == name_groups[j][1]
             similarity == FuzzRatio(Lower(name1), Lower(name2))
         IN  VariationLoop(name_groups, i, j + 1,
                 IF VariationKept(similarity)
                 THEN Append(name_variations,
                             [name1 |-> name1, name2 |-> name2,
                              similarity |-> similarity,
                              places1 |-> GroupOf(name_groups, name1),
                              places2 |-> GroupOf(name_groups, name2)])
                 ELSE name_variations)

\* the local name_groups of analyze_findings(place_list)
NameGroups(place_list) == GroupLoop(place_list, <<>>)

analyze_findings(place_list) ==
    LET name_groups == NameGroups(place_list)
    IN  [total_places |-> Len(place_list),
         unique_names |-> Cardinality({place_list[k].name : k \in 1..Len(place_list)}),
         multiple_locations |-> MultipleLocations(name_groups),
         name_variations |-> VariationLoop(name_groups, 1, 2, <<>>)]

\* the exact names of the places analyzed: "Lot", "lot", "Lat", "Lo"
AnalysisNames ==
    {<<"L", "o", "t">>, <<"l", "o", "t">>, <<"L", "a", "t">>, <<"L", "o">>}

\* the Place Record of a named way
Place(name, id) ==
    PlaceInfo([type |-> "way", id |-> id, tags |-> <<<<"name", name>>>>])

\* one place per name, and a second place named "Lot"
AnalysisPlaces ==
    {Place(name, 1) : name \in AnalysisNames} \cup {Place(<<"L", "o", "t">>, 2)}

\* the scores on both sides of the threshold of analyze_findings
BoundaryScores == {VariationThreshold, VariationThreshold + 1}

\* the score tables: any ratio table; the token algorithms are not called
AnalysisFuzz ==
    LET S == {Lower(name) : name \in AnalysisNames}
    IN  {[ratio |-> t,
          token_sort_ratio |-> [q \in S \X S |-> 100],
          token_set_ratio |-> [q \in S \X S |-> 100]] :
            t \in ScoreTables(S, BoundaryScores)}

AnalysisInit ==
    /\ pc = "analyze"
    /\ places \in SeqsUpTo(AnalysisPlaces, MaxPlaces)
    /\ fuzz \in AnalysisFuzz
    /\ analysis = PyNone
    /\ raw_records = <<>>
    /\ exception = "none"
    /\ call = PyNone
    /\ similar_names = <<>>
    /\ FetchIdle

\* analysis = analyze_findings(places)
AnalyzeFindings ==
    /\ pc = "analyze"
    /\ analysis' = Py(analyze_findings(places))
    /\ pc' = "analyzed"
    /\ UNCHANGED <<fetchVars, places, exception, raw_records, fuzz, call,
                   similar_names>>

AnalysisNext == AnalyzeFindings

SpecAnalysis == AnalysisInit /\ [][AnalysisNext]_vars

----------------------------------------------------------------------------
(* Properties of the analysis. *)

\* the places of the list that have this name, in the order of the list
PlacesNamed(place_list, name) ==
    LET Same(place) == place.name = name
    IN  SelectSeq(place_list, Same)

\* the i-th smallest member of a set of numbers
Nth(S, i) == CHOOSE k \in S : Cardinality({h \in S : h < k}) = i - 1

\* the distinct names of the list, each at its first occurrence
DiscoveryOrder(place_list) ==
    LET firsts == {k \in 1..Len(place_list) :
                      \A h \in 1..(k - 1) : place_list[h].name # place_list[k].name}
    IN  [i \in 1..Cardinality(firsts) |-> place_list[Nth(firsts, i)].name]

\* C14: the groups of analyze_findings partition the input by exact name,
\* each group holding the places of its name in input order; total_places is
\* the input length, unique_names the number of groups, and multiple_locations
\* holds exactly the names with more than one place, each with its full group.
C14_GroupsPartitionByName ==
    pc = "analyzed" =>
        LET name_groups == NameGroups(places)
            found == analysis.v
            several == found.multiple_locations
        IN  /\ found.total_places = Len(places)
            /\ found.unique_names = Len(name_groups)
            /\ \A g, h \in 1..Len(name_groups) :
                  name_groups[g][1] = name_groups[h][1] => g = h
            /\ \A k \in 1..Len(places) : HasGroup(name_groups, places[k].name)
            /\ \A g \in 1..Len(name_groups) :
                  /\ name_groups[g][2] # <<>>
                  /\ name_groups[g][2] = PlacesNamed(places, name_groups[g][1])
            /\ \A g, h \in 1..Len(several) : several[g][1] = several[h][1] => g = h
            /\ \A g \in 1..Len(several) :
                  /\ Len(several[g][2]) > 1
                  /\ several[g][2] = PlacesNamed(places, several[g][1])
            /\ \A k \in 1..Len(places) :
                  Len(PlacesNamed(places, places[k].name)) > 1
                      => HasGroup(several, places[k].name)

\* an analysis of three places, two of one name and one of another
C14_Witness ==
    /\ pc = "analyzed"
    /\ Len(places) = 3
    /\ analysis.v.unique_names = 2
    /\ Len(analysis.v.multiple_locations) = 1
    /\ places[1].name # places[2].name
    /\ places[1].name = places[3].name

\* C15: name_variations holds, once each and in the order of the outer and
\* the inner loop, exactly the pairs of distinct exact names (name1 discovered
\* before name2) whose ratio on the lowercased names is strictly greater than
\* 80, each with its score and the full groups of both names.
C15_VariationsAreThePairsAboveEighty ==
    pc = "analyzed" =>
        LET names == DiscoveryOrder(places)
            Score(q) == FuzzRatio(Lower(names[q[1]]), Lower(names[q[2]]))
            kept == {q \in (1..Len(names)) \X (1..Len(names)) :
                        q[1] < q[2] /\ Score(q) > VariationThreshold}
            Before(q, r) == q[1] < r[1] \/ (q[1] = r[1] /\ q[2] < r[2])
            Rank(q) == 1 + Cardinality({r \in kept : Before(r, q)})
            found == analysis.v.name_variations
        IN  /\ Len(found) = Cardinality(kept)
            /\ \A q \in kept :
                  found[Rank(q)] = [name1 |-> names[q[1]],
                                    name2 |-> names[q[2]],
                                    similarity |-> Score(q),
                                    places1 |-> PlacesNamed(places, names[q[1]]),
                                    places2 |-> PlacesNamed(places, names[q[2]])]

\* three names, one pair scoring exactly 80 and left out, two pairs kept
C15_Witness ==
    /\ pc = "analyzed"
    /\ Len(DiscoveryOrder(places)) = 3
    /\ Len(analysis.v.name_variations) = 2
    /\ FuzzRatio(Lower(places[1].name), Lower(places[2].name)) = VariationThreshold
    /\ analysis.v.name_variations[1].name1 = places[1].name
    /\ analysis.v.name_variations[1].name2 = places[3].name

----------------------------------------------------------------------------
(* find_similar_names. *)

\* max(a, b), max(a, b, c), abs(a)
Max(a, b) == IF a >= b THEN a ELSE b
Max3(a, b, c) == Max(Max(a, b), c)
Abs(a) == IF a < 0 THEN 0 - a ELSE a

\* A mutant that scores with the ratio algorithm only.
Similarity_RatioOnly(target_lower, name_lower) == FuzzRatio(target_lower, name_lower)

\* similarity = max(ratio_score, token_sort_score, token_set_score)
Similarity(target_lower, name_lower) ==
    Max3(FuzzRatio(target_lower, name_lower),
         FuzzTokenSortRatio(target_lower, name_lower),
         FuzzTokenSetRatio(target_lower, name_lower))

\* for name in all_names: ... similar_names.append((name, similarity))
RECURSIVE SimilarLoop(_, _, _, _, _)
SimilarLoop(target_lower, min_length, all_names, threshold, found) ==
    IF all_names = <<>> THEN found
    ELSE LET name == Head(all_names)
             name_lower == Lower(name)
             rest == Tail(all_names)
         IN  IF Len(name) < min_length
             THEN SimilarLoop(target_lower, min_length, rest, threshold, found)
             ELSE IF Abs(Len(name_lower) - Len(target_lower)) > Len(target_lower)
             THEN SimilarLoop(target_lower, min_length, rest, threshold, found)
             ELSE IF Similarity(target_lower, name_lower) >= threshold
             THEN SimilarLoop(target_lower, min_length, rest, threshold,
                      Append(found, <<name, Similarity(target_lower, name_lower)>>))
             ELSE SimilarLoop(target_lower, min_length, rest, threshold, found)

\* A mutant that puts an entry before the entries of equal score.
Insert_BeforeTies(sorted, entry) ==
    LET ahead == {k \in 1..Len(sorted) : sorted[k][2] > entry[2]}
    IN  SubSeq(sorted, 1, Cardinality(ahead)) \o <<entry>>
            \o SubSeq(sorted, Cardinality(ahead) + 1, Len(sorted))

\* one step of the stable sort: the entry goes behind every entry of the
\* sorted prefix whose score is at least its own
Insert(sorted, entry) ==
    LET ahead == {k \in 1..Len(sorted) : sorted[k][2] >= entry[2]}
    IN  SubSeq(sorted, 1, Cardinality(ahead)) \o <<entry>>
            \o SubSeq(sorted, Cardinality(ahead) + 1, Len(sorted))

\* sorted(similar_names, key=lambda x: x[1], reverse=True)
RECURSIVE SortedByScore(_, _)
SortedByScore(entries, sorted) ==
    IF entries = <<>> THEN sorted
    ELSE SortedByScore(Tail(entries), Insert(sorted, Head(entries)))

find_similar_names(target_name, all_names, threshold) ==
    LET target_lower == Lower(target_name)
        min_length == Max(MinNameLength, Len(target_name) \div 3)
    IN  SortedByScore(SimilarLoop(target_lower, min_length, all_names, threshold, <<>>),
                      <<>>)

\* the targets: "Lot"; "<I-dot>ot", whose lowercase is one character
\* longer; "LotaLotaLota", a third of whose length is more than 3
SimilarTargets ==
    {<<"L", "o", "t">>, <<"I-dot", "o", "t">>,
     <<"L", "o", "t", "a", "L", "o", "t", "a", "L", "o", "t", "a">>}

\* the candidates: "Lo", "Lot", "lot", "Lota", "lotalot"
SimilarNames ==
    {<<"L", "o">>, <<"L", "o", "t">>, <<"l", "o", "t">>, <<"L", "o", "t", "a">>,
     <<"l", "o", "t", "a", "l", "o", "t">>}

\* threshold: any integer; the default, and one that every score reaches
SimilarThresholds == {0, DefaultThreshold}

\* what the three algorithms (ratio, token sort, token set) give one pair:
\* all under the default threshold, one exactly at it, one above it
ScoreProfiles ==
    {<<DefaultThreshold - 1, DefaultThreshold - 1, DefaultThreshold - 1>>,
     <<DefaultThreshold - 1, DefaultThreshold, DefaultThreshold - 1>>,
     <<DefaultThreshold, DefaultThreshold - 1, DefaultThreshold + 5>>}

\* the score tables on the pairs the call compares: any profile for a pair
\* of different strings, 100 for equal strings
SimilarFuzz(target_lower, lowers) ==
    LET Table(profiles, a) ==
            [q \in {target_lower} \X lowers |->
                IF q[2] = target_lower THEN 100 ELSE profiles[q[2]][a]]
    IN  {[ratio |-> Table(profiles, 1),
          token_sort_ratio |-> Table(profiles, 2),
          token_set_ratio |-> Table(profiles, 3)] :
            profiles \in [lowers -> ScoreProfiles]}

SimilarInit ==
    /\ pc = "find_similar"
    /\ \E target_name \in SimilarTargets, all_names \in SeqsUpTo(SimilarNames, MaxNames),
          threshold \in SimilarThresholds :
          /\ call = Py([target_name |-> target_name, all_names |-> all_names,
                        threshold |-> threshold])
          /\ fuzz \in SimilarFuzz(Lower(target_name),
                                  {Lower(all_names[k]) : k \in 1..Len(all_names)})
    /\ similar_names = <<>>
    /\ analysis = PyNone
    /\ raw_records = <<>>
    /\ places = <<>>
    /\ exception = "none"
    /\ FetchIdle

\* similar_names = find_similar_names(target_name, all_names, threshold)
FindSimilarNames ==
    /\ pc = "find_similar"
    /\ similar_names' = find_similar_names(call.v.target_name, call.v.all_names,
                                           call.v.threshold)
    /\ pc' = "found_similar"
    /\ UNCHANGED <<fetchVars, places, exception, raw_records, analysis, fuzz, call>>

SimilarNext == FindSimilarNames

SpecSimilar == SimilarInit /\ [][SimilarNext]_vars

----------------------------------------------------------------------------
(* Properties of find_similar_names. *)

\* C16: no candidate returned is shorter than max(3, len(target) // 3), and
\* none differs in length from the target by more than the target's length.
C16_ReturnedNamesPassLengthFilters ==
    pc = "found_similar" =>
        \A k \in 1..Len(similar_names) :
            LET name == similar_names[k][1]
                target_name == call.v.target_name
            IN  /\ Len(name) >= Max(3, Len(target_name) \div 3)
                /\ Abs(Len(name) - Len(target_name)) <= Len(target_name)

\* the name passes both length pre-filters of the loop
PassesPrefilters(target_name, name) ==
    /\ Len(name) >= Max(3, Len(target_name) \div 3)
    /\ Abs(Len(Lower(name)) - Len(Lower(target_name))) <= Len(Lower(target_name))

\* the three scores of a candidate, on the lowercased strings
Scores(target_name, name) ==
    {FuzzRatio(Lower(target_name), Lower(name)),
     FuzzTokenSortRatio(Lower(target_name), Lower(name)),
     FuzzTokenSetRatio(Lower(target_name), Lower(name))}

\* the greatest of a set of scores
Best(scores) == CHOOSE b \in scores : \A x \in scores : x <= b

C18_SortedByScoreStable ==
    pc = "found_similar" =>
        \A score \in {[i \in 1..Len(call.v.all_names) |->
                         Best(Scores(call.v.target_name, call.v.all_names[i]))]} :
        \A kept \in {{i \in 1..Len(call.v.all_names) :
                         /\ PassesPrefilters(call.v.target_name, call.v.all_names[i])
                         /\ score[i] >= call.v.threshold}} :
            /\ Len(similar_names) = Cardinality(kept)
            /\ \A i \in kept :
                  LET ahead == {j \in kept :
                                   score[j] > score[i] \/ (score[j] = score[i] /\ j < i)}
                  IN  similar_names[1 + Cardinality(ahead)]
                          = <<call.v.all_names[i], score[i]>>

\* three entries: the candidate of the best score was last in the list, the
\* two others tie and keep the order they had in the list
C18_Witness ==
    /\ pc = "found_similar"
    /\ Len(similar_names) = 3
    /\ similar_names[1][1] = call.v.all_names[3]
    /\ similar_names[2][1] = call.v.all_names[1]
    /\ similar_names[3][1] = call.v.all_names[2]
    /\ similar_names[1][2] > similar_names[2][2]
    /\ similar_names[2][2] = similar_names[3][2]
    /\ similar_names[2][1] # similar_names[3][1]

----------------------------------------------------------------------------
(* The fetch on its own, on any box of the grid, the service being down:   *)
(* every query ends in a transport failure.                                *)

PlanRegions ==
    {Box(s, 0, n, e) : s \in 0..1, n \in 0..MaxCoord, e \in 0..MaxCoord}

\* main: the arguments of the first fetch, and of the broad fetch of step 3
PlanArgs ==
    CallArgs \cup {[search_term |-> "", place_types |-> <<"shop">>,
                    exact_match |-> FALSE, timeout |-> 25, broad_search |-> TRUE]}

PlanInit ==
    /\ pc = "main"
    /\ bbox \in PlanRegions
    /\ args \in PlanArgs
    /\ overpass = "down"
    /\ max_tiles = DefaultMaxTiles
    /\ tiles = <<>>
    /\ idx = 0
    /\ all_elements = <<>>
    /\ successful_tiles = 0
    /\ result = PyNone
    /\ exception = "none"
    /\ queries = <<>>
    /\ units = <<>>
    /\ places = <<>>
    /\ report = "none"
    /\ summary = "none"
    /\ clock = 0
    /\ returned_at = 0
    /\ PureIdle

PlanNext ==
    \/ FetchStart
    \/ SingleResponse
    \/ TileQuery
    \/ TileResponse
    \/ TileSleep
    \/ Deduplicate

SpecPlan == PlanInit /\ [][PlanNext]_vars

----------------------------------------------------------------------------
(* Properties of the schedule and of the plan of the fetch. *)

\* C19: on the tiled path at most one query is in flight; the query of a
\* tile after the first is issued only when every earlier query has returned
\* and the pacing delay has elapsed since the last return; deduplication and
\* all that follows come after the last tile has been answered.
C19_TileQueriesSequentialAndPaced ==
    (Tiled /\ pc # "main") =>
        /\ Len(queries) - Len(units) \in {0, 1}
        /\ Len(queries) > Len(units) <=> pc = "tile_wait"
        /\ (pc = "tile_wait" /\ Len(queries) > 1) => clock - returned_at >= PacingDelay
        /\ clock >= PacingDelay * (Len(queries) - 1)
        /\ LoopOver => Len(units) = Len(tiles) /\ clock >= PacingDelay * Len(tiles)

\* the last of four tile queries is in flight: the three before it have
\* returned, one of them failed, and the delay after the third has elapsed
C19_Witness ==
    /\ Tiled
    /\ pc = "tile_wait"
    /\ Len(queries) = 4
    /\ Len(units) = 3
    /\ ~units[3].ok
    /\ units[2].ok
    /\ clock - returned_at = PacingDelay

\* query_overpass_with_chunking is over, by a return or by an exception
FetchOver == pc \in {"fetch_returned", "fetch_raised", "done", "main_raised"}

\* the payload has the search term, filters, mode and timeout of the call
CarriesCallFilters(query) ==
    /\ query.name_pattern = IF args.broad_search THEN <<"any name">>
                            ELSE <<args.search_term, args.exact_match>>
    /\ query.place_types = args.place_types
    /\ query.timeout = args.timeout

\* C20: a fetch issues one query, for the box as given, when the area is at
\* most 1.0, and otherwise one query per tile of split_bbox_into_tiles with
\* max_tiles 16, in plan order; the number of queries is 1, 4, 9 or 16; every
\* query carries the search term, filters, mode and timeout of the call.
C20_OneQueryPerTileSameFilters ==
    /\ Len(queries) <= 16
    /\ \A k \in 1..Len(queries) : CarriesCallFilters(queries[k])
    /\ FetchOver =>
          /\ Len(queries) \in {1, 4, 9, 16}
          /\ IF AreaLeqOne(BboxArea)
             THEN Len(queries) = 1 /\ queries[1].bbox = bbox
             ELSE LET plan == split_bbox_into_tiles(bbox, 16)
                  IN  /\ Len(queries) = Len(plan)
                      /\ \A k \in 1..Len(plan) : queries[k].bbox = plan[k]

\* a broad fetch over nine tiles with a timeout other than the default
C20_Witness ==
    /\ FetchOver
    /\ Len(queries) = 9
    /\ args.broad_search
    /\ queries[9].timeout = 25
    /\ queries[9].bbox = tiles[9]
    /\ queries[1].bbox # queries[9].bbox

====
